---------------------------- MODULE Spec2Model ----------------------------
(***************************************************************************)
(* Model of daily_notes_manager (note_manager.py).                         *)
(*                                                                         *)
(* Text is modelled as TLA+ strings and every conversion the program does  *)
(* (strip, lower, split, strftime, fromisoformat, the regular expressions) *)
(* is computed character by character.  A date is a record                 *)
(* [year, month, day]; date arithmetic goes through the proleptic          *)
(* Gregorian ordinal as datetime.date does.                                *)
(***************************************************************************)
EXTENDS Integers, Sequences, FiniteSets, TLC

(***************************************************************************)
(* Characters and strings (str methods used by the program).               *)
(***************************************************************************)
Char(s, i) == SubSeq(s, i, i)

\* The printable ASCII characters in code point order: 32 (space) to 95, and
\* 97 to 126 (code point 96 cannot be written in a TLA+ string).
AsciiLow == " !\"#$%&'()*+,-./0123456789:;<=>?@ABCDEFGHIJKLMNOPQRSTUVWXYZ[\\]^_"
AsciiHigh == "abcdefghijklmnopqrstuvwxyz{|}~"

\* The code point of every character of the model's texts.
CodePoints ==
  [c \in {Char(AsciiLow, i) : i \in 1..Len(AsciiLow)} |->
     31 + (CHOOSE i \in 1..Len(AsciiLow) : Char(AsciiLow, i) = c)]
  @@ [c \in {Char(AsciiHigh, i) : i \in 1..Len(AsciiHigh)} |->
        96 + (CHOOSE i \in 1..Len(AsciiHigh) : Char(AsciiHigh, i) = c)]
  @@ ("\t" :> 9) @@ ("\n" :> 10) @@ ("\r" :> 13)

\* ord(c): the code point of a one-character string.
Ord(c) == CodePoints[c]

\* Whitespace as str.strip() and the regex class \s see it.
IsSpace(c) == c \in {" ", "\t", "\n", "\r"}

\* The regex class \d.
IsDigit(c) == c \in {"0", "1", "2", "3", "4", "5", "6", "7", "8", "9"}

AllDigits(s) == \A i \in 1..Len(s) : IsDigit(Char(s, i))

RECURSIVE LStrip(_)
LStrip(s) ==
  IF Len(s) > 0 /\ IsSpace(Char(s, 1)) THEN LStrip(SubSeq(s, 2, Len(s))) ELSE s

RECURSIVE RStrip(_)
RStrip(s) ==
  IF Len(s) > 0 /\ IsSpace(Char(s, Len(s)))
  THEN RStrip(SubSeq(s, 1, Len(s) - 1))
  ELSE s

\* str.strip()
Strip(s) == RStrip(LStrip(s))

UpperLetters == "ABCDEFGHIJKLMNOPQRSTUVWXYZ"
LowerLetters == "abcdefghijklmnopqrstuvwxyz"

LowerOf == [c \in {Char(UpperLetters, i) : i \in 1..Len(UpperLetters)} |->
              Char(LowerLetters, CHOOSE i \in 1..Len(UpperLetters) : Char(UpperLetters, i) = c)]

LowerChar(c) == IF c \in DOMAIN LowerOf THEN LowerOf[c] ELSE c

\* str.lower()
RECURSIVE Lower(_)
Lower(s) ==
  IF Len(s) = 0 THEN s
  ELSE LowerChar(Char(s, 1)) \o Lower(SubSeq(s, 2, Len(s)))

\* str.startswith / str.endswith
StartsWith(s, p) == Len(s) >= Len(p) /\ SubSeq(s, 1, Len(p)) = p
EndsWith(s, p) == Len(s) >= Len(p) /\ SubSeq(s, Len(s) - Len(p) + 1, Len(s)) = p

\* str.find(sub): the 1-based position of the first occurrence, 0 when there
\* is none (Python's 0-based index plus one, -1 becoming 0).
RECURSIVE FindFrom(_, _, _)
FindFrom(s, sub, i) ==
  IF i + Len(sub) - 1 > Len(s) THEN 0
  ELSE IF SubSeq(s, i, i + Len(sub) - 1) = sub THEN i
  ELSE FindFrom(s, sub, i + 1)

Find(s, sub) == FindFrom(s, sub, 1)

\* str.split(sep) for a one-character separator.
RECURSIVE Split(_, _)
Split(s, sep) ==
  LET p == Find(s, sep)
  IN IF p = 0 THEN <<s>>
     ELSE <<SubSeq(s, 1, p - 1)>> \o Split(SubSeq(s, p + 1, Len(s)), sep)

\* str.split(sep, 1)
Split1(s, sep) ==
  LET p == Find(s, sep)
  IN IF p = 0 THEN <<s>>
     ELSE <<SubSeq(s, 1, p - 1), SubSeq(s, p + 1, Len(s))>>

\* str.replace(old, new)
RECURSIVE Replace(_, _, _)
Replace(s, old, new) ==
  LET p == Find(s, old)
  IN IF p = 0 THEN s
     ELSE SubSeq(s, 1, p - 1) \o new
          \o Replace(SubSeq(s, p + Len(old), Len(s)), old, new)

\* sep.join(parts)
RECURSIVE Join(_, _)
Join(parts, sep) ==
  IF Len(parts) = 0 THEN ""
  ELSE IF Len(parts) = 1 THEN parts[1]
  ELSE parts[1] \o sep \o Join(Tail(parts), sep)

\* The lines of a text file as iterating over the file object yields them:
\* each line keeps its terminating "\n"; a last line without one is kept.
RECURSIVE FileLines(_)
FileLines(text) ==
  LET p == Find(text, "\n")
  IN IF Len(text) = 0 THEN <<>>
     ELSE IF p = 0 THEN <<text>>
     ELSE <<SubSeq(text, 1, p)>> \o FileLines(SubSeq(text, p + 1, Len(text)))

\* a < b on str: lexicographic by code point, a proper prefix sorts first.
RECURSIVE StrLess(_, _)
StrLess(a, b) ==
  IF Len(b) = 0 THEN FALSE
  ELSE IF Len(a) = 0 THEN TRUE
  ELSE IF Char(a, 1) = Char(b, 1)
       THEN StrLess(SubSeq(a, 2, Len(a)), SubSeq(b, 2, Len(b)))
       ELSE Ord(Char(a, 1)) < Ord(Char(b, 1))

\* sorted(set of str): ascending list of the distinct elements.
RECURSIVE SortedStrings(_)
SortedStrings(S) ==
  IF S = {} THEN <<>>
  ELSE LET m == CHOOSE x \in S : \A y \in S \ {x} : StrLess(x, y)
       IN <<m>> \o SortedStrings(S \ {m})

\* str(n) for n >= 0, and the zero-padded form strftime produces.
DigitChars == "0123456789"

RECURSIVE IntToStr(_)
IntToStr(n) ==
  IF n < 10 THEN Char(DigitChars, n + 1)
  ELSE IntToStr(n \div 10) \o Char(DigitChars, (n % 10) + 1)

RECURSIVE ZeroPad(_, _)
ZeroPad(s, width) == IF Len(s) >= width THEN s ELSE ZeroPad("0" \o s, width)

\* int(s) for a string of decimal digits.
DigitVals == [c \in {Char(DigitChars, i) : i \in 1..Len(DigitChars)} |->
                (CHOOSE i \in 1..Len(DigitChars) : Char(DigitChars, i) = c) - 1]

DigitVal(c) == DigitVals[c]

RECURSIVE StrToInt(_)
StrToInt(s) ==
  IF Len(s) = 0 THEN 0
  ELSE 10 * StrToInt(SubSeq(s, 1, Len(s) - 1)) + DigitVal(Char(s, Len(s)))

(***************************************************************************)
(* datetime.date: ordinals, date + timedelta, strftime, fromisoformat.     *)
(***************************************************************************)
MkDate(y, m, d) == [year |-> y, month |-> m, day |-> d]

IsLeap(y) == y % 4 = 0 /\ (y % 100 # 0 \/ y % 400 = 0)

DaysInMonth(y, m) ==
  IF m = 2 THEN (IF IsLeap(y) THEN 29 ELSE 28)
  ELSE IF m \in {4, 6, 9, 11} THEN 30 ELSE 31

RECURSIVE DaysBeforeMonth(_, _)
DaysBeforeMonth(y, m) ==
  IF m = 1 THEN 0 ELSE DaysBeforeMonth(y, m - 1) + DaysInMonth(y, m - 1)

DaysBeforeYear(y) ==
  ((y - 1) * 365) + ((y - 1) \div 4) - ((y - 1) \div 100) + ((y - 1) \div 400)

\* date.toordinal(): 1 is 0001-01-01.
ToOrdinal(dt) == DaysBeforeYear(dt.year) + DaysBeforeMonth(dt.year, dt.month) + dt.day

\* date.fromordinal(n): the year is found from the days before each year,
\* the month from the days before each month.
FromOrdinal(n) ==
  LET guess == ((n - 1) \div 366) + 1
      y == CHOOSE yy \in guess..(((n - 1) \div 365) + 1) :
             DaysBeforeYear(yy) < n /\ n <= DaysBeforeYear(yy + 1)
      rest == n - DaysBeforeYear(y)
      m == CHOOSE mm \in 1..12 :
             /\ DaysBeforeMonth(y, mm) < rest
             /\ rest <= DaysBeforeMonth(y, mm) + DaysInMonth(y, mm)
  IN MkDate(y, m, rest - DaysBeforeMonth(y, m))

\* datetime.MAXYEAR: date.max is 9999-12-31.
MAXYEAR == 9999

\* today_date + timedelta(days=i) raises OverflowError past date.max.
AddDaysRaises(dt, i) == ToOrdinal(dt) + i > ToOrdinal(MkDate(MAXYEAR, 12, 31))

\* today_date + timedelta(days=i)
AddDays(dt, i) == FromOrdinal(ToOrdinal(dt) + i)

\* strftime is the C library's: %Y of a year below 1000 comes with leading
\* zeros from some libraries and without them from others (glibc).
VARIABLE year_padded

StrftimeYear(y) == IF year_padded THEN ZeroPad(IntToStr(y), 4) ELSE IntToStr(y)

\* date.strftime("%Y-%m-%d")
Strftime(dt) ==
  StrftimeYear(dt.year) \o "-" \o ZeroPad(IntToStr(dt.month), 2)
    \o "-" \o ZeroPad(IntToStr(dt.day), 2)

\* date.fromisoformat("YYYY-MM-DD")
FromIsoFormat(iso) ==
  MkDate(StrToInt(SubSeq(iso, 1, 4)), StrToInt(SubSeq(iso, 6, 7)),
         StrToInt(SubSeq(iso, 9, 10)))

\* date.weekday(): Monday is 0.
Weekday(dt) == (ToOrdinal(dt) + 6) % 7

\* date.strftime("%a") and date.strftime("%A")
AbbrevDayNames == <<"Mon", "Tue", "Wed", "Thu", "Fri", "Sat", "Sun">>
FullDayNames ==
  <<"Monday", "Tuesday", "Wednesday", "Thursday", "Friday", "Saturday", "Sunday">>

StrftimeAbbrevDay(dt) == AbbrevDayNames[Weekday(dt) + 1]

print_day_of_week(dt) == FullDayNames[Weekday(dt) + 1]

(***************************************************************************)
(* get_days_for_pattern                                                    *)
(***************************************************************************)
SeqToSet(q) == {q[i] : i \in 1..Len(q)}

\* range(7)
WeekRange == 0..6

\* all_week_as_string built from month lengths that ignore leap years.
all_week_as_string_no_leap(today_date) ==
  LET step(dt) == IF dt.day < (IF dt.month = 2 THEN 28 ELSE DaysInMonth(dt.year, dt.month))
                  THEN MkDate(dt.year, dt.month, dt.day + 1)
                  ELSE IF dt.month < 12 THEN MkDate(dt.year, dt.month + 1, 1)
                  ELSE MkDate(dt.year + 1, 1, 1)
      week[k \in 1..Cardinality(WeekRange)] == IF k = 1 THEN today_date ELSE step(week[k - 1])
  IN [k \in 1..Cardinality(WeekRange) |-> Strftime(week[k])]

\* The list all_week_as_string: today .. today + 6 as YYYY-MM-DD.
all_week_as_string(today_date) ==
  [k \in 1..Cardinality(WeekRange) |-> Strftime(AddDays(today_date, k - 1))]

WeekdayTokens == {"mon", "tue", "wed", "thu", "fri", "sat", "sun"}

\* The dates one stripped, lower-cased sub pattern adds to matched_days: the
\* if / elif chain of the loop body, first matching shape wins.
SubPatternDays(sub_pattern, all_week) ==
  IF Len(sub_pattern) = 8 /\ AllDigits(sub_pattern)
  THEN LET formatted_pattern ==
             SubSeq(sub_pattern, 1, 4) \o "-" \o SubSeq(sub_pattern, 5, 6)
               \o "-" \o SubSeq(sub_pattern, 7, 8)
       IN {d \in SeqToSet(all_week) : d = formatted_pattern}
  ELSE IF Len(sub_pattern) = 2 /\ AllDigits(sub_pattern)
  THEN {d \in SeqToSet(all_week) : SubSeq(d, Len(d) - 1, Len(d)) = sub_pattern}
  ELSE IF Len(sub_pattern) = 4 /\ AllDigits(sub_pattern)
  THEN LET as_string == SubSeq(sub_pattern, 1, 2) \o "-" \o SubSeq(sub_pattern, 3, 4)
       IN {d \in SeqToSet(all_week) : SubSeq(d, 6, Len(d)) = as_string}
  ELSE IF sub_pattern \in WeekdayTokens
  THEN {day \in SeqToSet(all_week) :
          Lower(StrftimeAbbrevDay(FromIsoFormat(day))) = sub_pattern}
  ELSE {}

get_days_for_pattern(pattern, today_date) ==
  LET all_week == all_week_as_string(today_date)
      subs == Split(pattern, ",")
  IN IF pattern = "" \/ pattern = "*" THEN all_week
     ELSE SortedStrings(UNION {SubPatternDays(Lower(Strip(subs[i])), all_week) :
                                 i \in 1..Len(subs)})

(***************************************************************************)
(* Program constants.                                                      *)
(***************************************************************************)
ARCHIVE_HOME == "archive"
BACKUP_HOME == "backup"
INCOMPLETE_TASKS_FILENAME == "incomplete tasks.md"
CONFIG_FILENAME == "config.md"
EPHEMERAL_MARKER == "(delete_if_not_entered)"

(***************************************************************************)
(* Checklist lines and the per-file rotation step.                         *)
(***************************************************************************)
\* The end of what "." can match from position i on: "." stops at "\n".
RECURSIVE DotRunEnd(_, _)
DotRunEnd(line, i) ==
  IF i > Len(line) \/ Char(line, i) = "\n" THEN i - 1 ELSE DotRunEnd(line, i + 1)

\* re.match(r"^(\*|-)\s\[\s\]\s(.+)", line)
UncheckedMatch(line) ==
  /\ Len(line) >= 7
  /\ Char(line, 1) \in {"*", "-"}
  /\ IsSpace(Char(line, 2))
  /\ Char(line, 3) = "["
  /\ IsSpace(Char(line, 4))
  /\ Char(line, 5) = "]"
  /\ IsSpace(Char(line, 6))
  /\ Char(line, 7) # "\n"

\* match.group(2).strip()
UncheckedTask(line) == Strip(SubSeq(line, 7, DotRunEnd(line, 7)))

\* re.match(r"^(\*|-)\s\[x\]\s", line, re.IGNORECASE)
CheckedMatch(line) ==
  /\ Len(line) >= 6
  /\ Char(line, 1) \in {"*", "-"}
  /\ IsSpace(Char(line, 2))
  /\ Char(line, 3) = "["
  /\ Char(line, 4) \in {"x", "X"}
  /\ Char(line, 5) = "]"
  /\ IsSpace(Char(line, 6))

\* get_task_if_task_line: isTask is FALSE where the function returns None.
get_task_if_task_line(line) ==
  IF UncheckedMatch(line)
  THEN [isTask |-> TRUE, task |-> UncheckedTask(line)]
  ELSE [isTask |-> FALSE, task |-> ""]

\* ArchiveScan testing line.endswith(marker) on the line as read, with its
\* line end and trailing blanks, instead of on line.strip().
RECURSIVE ArchiveScan_unstripped(_, _, _)
ArchiveScan_unstripped(lines, k, acc) ==
  IF k > Len(lines) THEN acc
  ELSE LET line == lines[k]
           stripped == Strip(line)
       IN IF EndsWith(line, EPHEMERAL_MARKER)
          THEN ArchiveScan_unstripped(lines, k + 1, acc)
          ELSE ArchiveScan_unstripped(lines, k + 1,
                 [new_lines |-> Append(acc.new_lines, line),
                  incomplete_tasks |->
                    IF UncheckedMatch(stripped)
                    THEN acc.incomplete_tasks \cup {UncheckedTask(stripped)}
                    ELSE acc.incomplete_tasks])

\* The loop of process_single_file_before_archiving over the lines of the
\* note: acc.new_lines and acc.incomplete_tasks after the lines from k on.
RECURSIVE ArchiveScan(_, _, _)
ArchiveScan(lines, k, acc) ==
  IF k > Len(lines) THEN acc
  ELSE LET line == lines[k]
           stripped == Strip(line)
       IN IF EndsWith(stripped, EPHEMERAL_MARKER)
          THEN ArchiveScan(lines, k + 1, acc)
          ELSE ArchiveScan(lines, k + 1,
                 [new_lines |-> Append(acc.new_lines, line),
                  incomplete_tasks |->
                    IF UncheckedMatch(stripped)
                    THEN acc.incomplete_tasks \cup {UncheckedTask(stripped)}
                    ELSE acc.incomplete_tasks])

\* process_single_file_before_archiving on the text of the note: the text
\* written to archive/<note_file> and the set returned.
process_single_file_before_archiving(text) ==
  LET r == ArchiveScan(FileLines(text), 1,
                       [new_lines |-> <<>>, incomplete_tasks |-> {}])
  IN [archive_text |-> Join(r.new_lines, ""), incomplete_tasks |-> r.incomplete_tasks]

\* IncompleteTaskFileTasks with "-" as the only bullet of a checklist line.
IncompleteTaskFileTasks_dash_only(text) ==
  LET lines == FileLines(text)
      found(k) == get_task_if_task_line(Strip(lines[k]))
  IN {found(k).task : k \in {j \in 1..Len(lines) :
                                found(j).isTask /\ Char(Strip(lines[j]), 1) = "-"}}

\* The set process_incomplete_task_file collects from the text of the
\* carry-forward document.
IncompleteTaskFileTasks(text) ==
  LET lines == FileLines(text)
      found(k) == get_task_if_task_line(Strip(lines[k]))
  IN {found(k).task : k \in {j \in 1..Len(lines) : found(j).isTask /\ found(j).task # ""}}

(***************************************************************************)
(* write_incomplete_tasks_to_file: the document text.                      *)
(***************************************************************************)
\* TaskLines with no blank between the box and the task.
RECURSIVE TaskLines_no_blank(_)
TaskLines_no_blank(sorted_tasks) ==
  IF Len(sorted_tasks) = 0 THEN ""
  ELSE "- [ ]" \o Head(sorted_tasks) \o "\n" \o TaskLines_no_blank(Tail(sorted_tasks))

RECURSIVE TaskLines(_)
TaskLines(sorted_tasks) ==
  IF Len(sorted_tasks) = 0 THEN ""
  ELSE "- [ ] " \o Head(sorted_tasks) \o "\n" \o TaskLines(Tail(sorted_tasks))

IncompleteTaskHeader(today_date) ==
  "Incomplete task list updated on " \o IntToStr(today_date.day) \o "/"
    \o IntToStr(today_date.month) \o "/" \o IntToStr(today_date.year) \o ":\n\n"

\* The document with the date of the header written as strftime("%d/%m/%Y")
\* writes it, zero padded.
incomplete_task_document_padded(tasks, today_date) ==
  "Incomplete task list updated on " \o ZeroPad(IntToStr(today_date.day), 2) \o "/"
    \o ZeroPad(IntToStr(today_date.month), 2) \o "/" \o IntToStr(today_date.year)
    \o ":\n\n"
    \o (IF tasks # {} THEN TaskLines(SortedStrings(tasks))
        ELSE "No incomplete tasks found.\n")

incomplete_task_document(tasks, today_date) ==
  IncompleteTaskHeader(today_date)
    \o (IF tasks # {} THEN TaskLines(SortedStrings(tasks))
        ELSE "No incomplete tasks found.\n")

(***************************************************************************)
(* parse_config                                                            *)
(***************************************************************************)
\* IsTasksHeader without the lower(): "tasks" is looked for as written.
IsTasksHeader_case_sensitive(section_name) == Find(section_name, "tasks") # 0

IsTasksHeader(section_name) == Find(Lower(section_name), "tasks") # 0

\* ParseConfigLine with line.split(":"): the task text ends at the second
\* colon of the line.
ParseConfigLine_split_all(st, raw_line, today_date) ==
  LET line == Strip(raw_line)
      parts == Split(line, ":")
      date_pattern == IF Len(parts) >= 2 THEN Strip(parts[1]) ELSE ""
      task == IF Len(parts) >= 2 THEN Strip(parts[2]) ELSE line
  IN IF line = "" THEN st
     ELSE IF StartsWith(line, "#")
     THEN [st EXCEPT !.sections = Append(@, <<st.name, Join(st.content, "\n")>>),
                     !.name = line,
                     !.content = <<>>,
                     !.in_tasks = IsTasksHeader(line)]
     ELSE IF ~st.in_tasks
     THEN [st EXCEPT !.content = Append(@, line)]
     ELSE [st EXCEPT !.tasks =
             Append(@, <<get_days_for_pattern(date_pattern, today_date), task>>)]

\* One line of the configuration document applied to the parser state
\* st = [sections, name, content, in_tasks, tasks].
ParseConfigLine(st, raw_line, today_date) ==
  LET line == Strip(raw_line)
      parts == Split1(line, ":")
      date_pattern == IF Len(parts) = 2 THEN Strip(parts[1]) ELSE ""
      task == IF Len(parts) = 2 THEN Strip(parts[2]) ELSE line
  IN IF line = "" THEN st
     ELSE IF StartsWith(line, "#")
     THEN [st EXCEPT !.sections = Append(@, <<st.name, Join(st.content, "\n")>>),
                     !.name = line,
                     !.content = <<>>,
                     !.in_tasks = IsTasksHeader(line)]
     ELSE IF ~st.in_tasks
     THEN [st EXCEPT !.content = Append(@, line)]
     ELSE [st EXCEPT !.tasks =
             Append(@, <<get_days_for_pattern(date_pattern, today_date), task>>)]

RECURSIVE ParseConfigLines(_, _, _, _)
ParseConfigLines(st, lines, k, today_date) ==
  IF k > Len(lines) THEN st
  ELSE ParseConfigLines(ParseConfigLine(st, lines[k], today_date), lines, k + 1,
                        today_date)

\* parse_config that appends a section at a header only once a header or a
\* content line has been seen, so that nothing stands before the first
\* header of a document that starts with one.
parse_config_no_leading(text, today_date) ==
  LET st == ParseConfigLines([sections |-> <<>>, name |-> "", content |-> <<>>,
                              in_tasks |-> FALSE, tasks |-> <<>>],
                             FileLines(text), 1, today_date)
      sections == Append(st.sections, <<st.name, Join(st.content, "\n")>>)
  IN [task_list_for_day |-> st.tasks,
      sections |-> IF Len(sections) > 1 /\ sections[1] = <<"", "">>
                   THEN Tail(sections) ELSE sections]

\* parse_config on the text of config.md: a NoteManagerConfig.
parse_config(text, today_date) ==
  LET st == ParseConfigLines([sections |-> <<>>, name |-> "", content |-> <<>>,
                              in_tasks |-> FALSE, tasks |-> <<>>],
                             FileLines(text), 1, today_date)
  IN [task_list_for_day |-> st.tasks,
      sections |-> Append(st.sections, <<st.name, Join(st.content, "\n")>>)]

(***************************************************************************)
(* output_tasks_for_day, countdown, create_file_for_day                    *)
(***************************************************************************)
\* output_tasks_for_day returning sorted(set(tasks_for_day)).
output_tasks_for_day_sorted(task_list, day) ==
  SortedStrings({"- [ ] " \o task_list[k][2] :
                   k \in {j \in 1..Len(task_list) : day \in SeqToSet(task_list[j][1])}})

RECURSIVE output_tasks_for_day(_, _)
output_tasks_for_day(task_list, day) ==
  IF Len(task_list) = 0 THEN <<>>
  ELSE (IF day \in SeqToSet(Head(task_list)[1])
        THEN <<"- [ ] " \o Head(task_list)[2]>> ELSE <<>>)
       \o output_tasks_for_day(Tail(task_list), day)

\* A countdown that counts from the end date back to the start date.
countdown_reversed(start_date, end_date) == ToOrdinal(start_date) - ToOrdinal(end_date)

\* countdown(start_date, end_date): (end_date - start_date).days
countdown(start_date, end_date) == ToOrdinal(end_date) - ToOrdinal(start_date)

\* str(n) for any integer
SignedIntToStr(n) == IF n < 0 THEN "-" \o IntToStr(0 - n) ELSE IntToStr(n)

\* The shape \d{4}-\d{2}-\d{2}, of a ten character string.
IsIsoShape(t) ==
  /\ Len(t) = 10
  /\ AllDigits(SubSeq(t, 1, 4)) /\ Char(t, 5) = "-"
  /\ AllDigits(SubSeq(t, 6, 7)) /\ Char(t, 8) = "-"
  /\ AllDigits(SubSeq(t, 9, 10))

\* re.search(r"(\d{4}-\d{2}-\d{2}),(.*)", line): the 1-based start of the
\* leftmost match, 0 when there is none.
RECURSIVE CountdownSearchFrom(_, _)
CountdownSearchFrom(line, i) ==
  IF i + 10 > Len(line) THEN 0
  ELSE IF IsIsoShape(SubSeq(line, i, i + 9)) /\ Char(line, i + 10) = "," THEN i
  ELSE CountdownSearchFrom(line, i + 1)

CountdownSearch(line) == CountdownSearchFrom(line, 1)

\* What one line of a section's content adds to daily_notes_content.
RenderContentLine(raw_line, file_date) ==
  LET line == IF Find(raw_line, "%dow%") # 0
              THEN Replace(raw_line, "%dow%", print_day_of_week(file_date))
              ELSE raw_line
      rest == SubSeq(line, 11, Len(line))
      at == CountdownSearch(rest)
      countdown_name == Strip(SubSeq(rest, at + 11, DotRunEnd(rest, at + 11)))
      days_left == countdown(file_date, FromIsoFormat(SubSeq(rest, at, at + 9)))
  IN IF StartsWith(line, "countdown:")
     THEN (IF at # 0
           THEN countdown_name \o " " \o SignedIntToStr(days_left) \o " "
                  \o (IF days_left # 1 THEN "days" ELSE "day") \o "\n"
           ELSE "")
     ELSE line

RECURSIVE RenderContentLines(_, _)
RenderContentLines(lines, file_date) ==
  IF Len(lines) = 0 THEN ""
  ELSE RenderContentLine(Head(lines), file_date)
       \o RenderContentLines(Tail(lines), file_date)

\* What one section adds to daily_notes_content.
RenderSection(section, n_incomplete, config, file_date) ==
  LET section_name == section[1]
      section_content == section[2]
      tasks_for_day == output_tasks_for_day(config.task_list_for_day, Strftime(file_date))
  IN (IF section_name # "" THEN section_name \o "\n" ELSE "")
     \o (IF IsTasksHeader(section_name)
         THEN "At the last calculation there were " \o IntToStr(n_incomplete)
                \o " [[incomplete tasks]].\n"
                \o (IF Len(tasks_for_day) > 0
                    THEN Join(tasks_for_day, "\n") \o "\n"
                    ELSE "- [ ] No tasks for today\n")
         ELSE IF section_content # ""
         THEN RenderContentLines(Split(section_content, "\n"), file_date) \o "\n\n"
         ELSE "")

RECURSIVE RenderSections(_, _, _, _)
RenderSections(sections, n_incomplete, config, file_date) ==
  IF Len(sections) = 0 THEN ""
  ELSE RenderSection(Head(sections), n_incomplete, config, file_date)
       \o RenderSections(Tail(sections), n_incomplete, config, file_date)

\* The text create_file_for_day writes to <file_date>.md.
create_file_for_day(incomplete, config, file_date) ==
  RenderSections(config.sections, Cardinality(incomplete), config, file_date)

(***************************************************************************)
(* The run of main() over a notes directory.                               *)
(*                                                                         *)
(* files, archive, backup map the file names of the notes home, of         *)
(* archive/ and of backup/ to the text of each file; dirs is the set of    *)
(* sub directories that exist.  calls is the list of file system calls     *)
(* the run has made so far, files0 the notes home as the run found it,     *)
(* errors the files named by the "Error processing file" lines printed.    *)
(***************************************************************************)
VARIABLES pc, today, files, archive, backup, dirs, note_files, idx,
          incomplete_tasks, parsed_config, exit_status, errors, calls, files0,
          run, archive0, backup0, tasks0, unreadable,
          r_tokens, r_pattern, r_today, r_days, r_pc,
          c_lines, c_today, c_offset, c_incomplete, c_config, c_out, c_carried, c_pc,
          x_lines, x_out, x_pc

fsvars == <<files, archive, backup, dirs>>
\* run counts the runs of main over the same notes home; archive0, backup0
\* and tasks0 are archive/, backup/ and the set of incomplete tasks as the
\* run before left them; unreadable holds the names of the files the
\* process may not read.
rerunvars == <<run, archive0, backup0, tasks0, unreadable>>
runvars == <<pc, today, year_padded, note_files, idx, incomplete_tasks, parsed_config,
             exit_status, errors, calls, files0, rerunvars>>
resolvevars == <<r_tokens, r_pattern, r_today, r_days, r_pc>>
rendervars == <<c_lines, c_today, c_offset, c_incomplete, c_config, c_out, c_carried, c_pc>>
xvars == <<x_lines, x_out, x_pc>>
purevars == <<resolvevars, rendervars, xvars>>
vars == <<fsvars, runvars, purevars>>

\* Bounds of the model.
MaxNoteFiles == 3

\* The values of date.today() the runs are checked for.
Todays == {MkDate(2025, 1, 3), MkDate(2024, 2, 28)}

\* The days, relative to today, a daily file may exist for when the run starts.
NoteOffsets == {-2, -1, 0, 1}

\* Texts of expired daily files.
NoteTexts ==
  { "# Tasks\n- [ ] Task 1\n- [x] Task 2\n* [ ] Task 3\n- [ ]\n-[ ] not a task\n",
    "Content\n#thought (delete_if_not_entered)\n- [ ] Call mum (delete_if_not_entered)  \n-\t[ ]\tTask 1 \n- [X] Done\n  - [ ] Task 4" }

\* The text of a daily file for today or later that was edited by hand.
EditedText == "# Diary\nmy own words\n- [ ] Own task\n"

\* Texts of a carry-forward document left by an earlier run.
CarryTexts ==
  { "Incomplete task list updated on 2/1/2025:\n\n- [ ] Task 1\n- [x] Old done\n* [ ] Carried over\n",
    "Incomplete task list updated on 2/1/2025:\n\nNo incomplete tasks found.\n" }

\* Texts of config.md.
ConfigTexts ==
  { "# Diary\nToday is %dow%\n#thought (delete_if_not_entered)\n# Tasks\nmon:Put out the: bins\n*:Walk the dog\n",
    "intro\n# Countdown\ncountdown:2025-01-04,Trip in\nsecond line\n# Tasks\n04:Pay rent\n" }

NoteFileName(dt) == Strftime(dt) \o ".md"

\* A directory with one file written or removed.
Put(f, name, text) == [x \in DOMAIN f \cup {name} |-> IF x = name THEN text ELSE f[x]]
Remove(f, name) == [x \in DOMAIN f \ {name} |-> f[x]]

NoFiles == [x \in {} |-> ""]

\* The notes homes a run may find.
InitialHomes(dt) ==
  LET texts(o) == IF o < 0 THEN NoteTexts ELSE {EditedText}
      daily == UNION {[{NoteFileName(AddDays(dt, o)) : o \in offs} -> NoteTexts \cup {EditedText}] :
                        offs \in {S \in SUBSET NoteOffsets : Cardinality(S) <= MaxNoteFiles}}
      wellTyped(f) == \A o \in NoteOffsets :
                        NoteFileName(AddDays(dt, o)) \in DOMAIN f
                          => f[NoteFileName(AddDays(dt, o))] \in texts(o)
      others == UNION {[S -> CarryTexts \cup ConfigTexts] :
                         S \in SUBSET {CONFIG_FILENAME, INCOMPLETE_TASKS_FILENAME}}
      othersTyped(g) ==
        /\ CONFIG_FILENAME \in DOMAIN g => g[CONFIG_FILENAME] \in ConfigTexts
        /\ INCOMPLETE_TASKS_FILENAME \in DOMAIN g
             => g[INCOMPLETE_TASKS_FILENAME] \in CarryTexts
  IN {f @@ g @@ ("123.md" :> "not a daily note\n- [ ] Stray\n") :
        f \in {h \in daily : wellTyped(h)}, g \in {h \in others : othersTyped(h)}}

EmptyConfig == [task_list_for_day |-> <<>>, sections |-> <<>>]

\* The variables of a specification that is not the one being run.
ResolveIdle ==
  /\ r_tokens = <<>> /\ r_pattern = "" /\ r_today = MkDate(2025, 1, 1)
  /\ r_days = <<>> /\ r_pc = "idle"

RenderIdle ==
  /\ c_lines = <<>> /\ c_today = MkDate(2025, 1, 1) /\ c_offset = 0
  /\ c_incomplete = {} /\ c_config = EmptyConfig /\ c_out = "" /\ c_carried = {}
  /\ c_pc = "idle"

XEffectIdle == x_lines = <<>> /\ x_out = "" /\ x_pc = "idle"

Init ==
  /\ pc = "get_files"
  /\ today \in Todays
  \* Every date of a run of main has a year of four digits, which every C
  \* library writes alike: the runs are explored under one library.
  /\ year_padded = FALSE
  /\ files \in InitialHomes(today)
  /\ files0 = files
  /\ dirs \in {{}, {ARCHIVE_HOME, BACKUP_HOME}}
  /\ archive = NoFiles
  /\ backup = NoFiles
  /\ note_files = <<>>
  /\ idx = 1
  /\ incomplete_tasks = {}
  /\ parsed_config = EmptyConfig
  /\ exit_status = 0
  /\ errors = <<>>
  /\ calls = <<>>
  /\ run = 1 /\ archive0 = NoFiles /\ backup0 = NoFiles /\ tasks0 = {}
  /\ unreadable \in (IF CONFIG_FILENAME \in DOMAIN files
                      THEN {{}, {CONFIG_FILENAME}} ELSE {{}})
  /\ ResolveIdle /\ RenderIdle /\ XEffectIdle

\* re.match(r"\d{4}-\d{2}-\d{2}\.md$", f)
IsNoteFileName(f) ==
  /\ Len(f) = 13
  /\ IsIsoShape(SubSeq(f, 1, 10))
  /\ SubSeq(f, 11, 13) = ".md"

\* The orders os.listdir may return the names of S in: every order of a
\* directory of up to MaxNoteFiles daily files, the ascending and the
\* descending order of a larger one.
Listings(S) ==
  IF Cardinality(S) <= MaxNoteFiles
  THEN {q \in [1..Cardinality(S) -> S] :
          \A a, b \in 1..Cardinality(S) : q[a] = q[b] => a = b}
  ELSE {SortedStrings(S),
        [k \in 1..Cardinality(S) |-> SortedStrings(S)[Cardinality(S) + 1 - k]]}

Call(op, dir, name) == [op |-> op, dir |-> dir, name |-> name]

\* get_files: config.md must be there, a file, and readable; the daily
\* files are listed.
ConfigAccessible ==
  CONFIG_FILENAME \in DOMAIN files /\ CONFIG_FILENAME \notin unreadable

\* get_files raising only once directory_check has been through.
GetFilesRaises_after_directory_check ==
  /\ pc = "get_files"
  /\ ~ConfigAccessible
  /\ dirs' = dirs \cup {ARCHIVE_HOME, BACKUP_HOME}
  /\ calls' = calls \o <<Call("makedirs", "", ARCHIVE_HOME),
                         Call("makedirs", "", BACKUP_HOME)>>
  /\ pc' = "raised"
  /\ exit_status' = 1
  /\ UNCHANGED <<files, archive, backup, today, year_padded, note_files, idx,
                 incomplete_tasks, parsed_config, errors, files0, rerunvars, purevars>>

GetFilesRaises ==
  /\ pc = "get_files"
  /\ ~ConfigAccessible
  /\ pc' = "raised"
  /\ exit_status' = 1
  /\ UNCHANGED <<fsvars, today, year_padded, note_files, idx, incomplete_tasks, parsed_config,
                 errors, calls, files0, rerunvars, purevars>>

GetFiles ==
  /\ pc = "get_files"
  /\ ConfigAccessible
  /\ note_files' \in Listings({f \in DOMAIN files \cup dirs : IsNoteFileName(f)})
  /\ pc' = "parse_config"
  /\ UNCHANGED <<fsvars, today, year_padded, idx, incomplete_tasks, parsed_config, exit_status,
                 errors, calls, files0, rerunvars, purevars>>

ParseConfig ==
  /\ pc = "parse_config"
  /\ parsed_config' = parse_config(files[CONFIG_FILENAME], today)
  /\ calls' = Append(calls, Call("read", "", CONFIG_FILENAME))
  /\ pc' = "directory_check"
  /\ UNCHANGED <<fsvars, today, year_padded, note_files, idx, incomplete_tasks, exit_status,
                 errors, files0, rerunvars, purevars>>

\* directory_check: archive/ and backup/ are created when missing.
RECURSIVE MakedirsCalls(_)
MakedirsCalls(subdirs) ==
  IF Len(subdirs) = 0 THEN <<>>
  ELSE (IF Head(subdirs) \notin dirs
        THEN <<Call("makedirs", "", Head(subdirs))>> ELSE <<>>)
       \o MakedirsCalls(Tail(subdirs))

directory_check ==
  /\ pc = "directory_check"
  /\ dirs' = dirs \cup {ARCHIVE_HOME, BACKUP_HOME}
  /\ calls' = calls \o MakedirsCalls(<<ARCHIVE_HOME, BACKUP_HOME>>)
  /\ pc' = "process_old"
  /\ UNCHANGED <<files, archive, backup, today, year_padded, note_files, idx, incomplete_tasks,
                 parsed_config, exit_status, errors, files0, rerunvars, purevars>>

\* IsOld comparing with <= against the name of the file of today.
IsOld_through_today(note_file) == ~StrLess(NoteFileName(today), note_file)

\* process_old, one iteration of the loop over note_files.
IsOld(note_file) == StrLess(note_file, Strftime(today))

ProcessOldSkip ==
  /\ pc = "process_old"
  /\ idx <= Len(note_files)
  /\ ~IsOld(note_files[idx])
  /\ idx' = idx + 1
  /\ UNCHANGED <<fsvars, pc, today, year_padded, note_files, incomplete_tasks, parsed_config,
                 exit_status, errors, calls, files0, rerunvars, purevars>>

ProcessOldFile ==
  /\ pc = "process_old"
  /\ idx <= Len(note_files)
  /\ IsOld(note_files[idx])
  /\ LET note_file == note_files[idx]
         r == process_single_file_before_archiving(files[note_file])
     IN /\ incomplete_tasks' = incomplete_tasks \cup r.incomplete_tasks
        /\ archive' = Put(archive, note_file, r.archive_text)
        /\ backup' = Put(backup, note_file, files[note_file])
        /\ files' = Remove(files, note_file)
        /\ calls' = calls \o <<Call("read", "", note_file),
                               Call("write", ARCHIVE_HOME, note_file),
                               Call("rename", "", note_file)>>
  /\ idx' = idx + 1
  /\ UNCHANGED <<dirs, pc, today, year_padded, note_files, parsed_config, exit_status, errors,
                 files0, rerunvars, purevars>>

\* ProcessOldFails with an except clause that prints the error and goes on
\* to the next file instead of calling sys.exit(1).
ProcessOldFails_continues ==
  /\ pc = "process_old"
  /\ idx <= Len(note_files)
  /\ IsOld(note_files[idx])
  /\ errors' = Append(errors, note_files[idx])
  /\ calls' = Append(calls, Call("read", "", note_files[idx]))
  /\ idx' = idx + 1
  /\ UNCHANGED <<fsvars, pc, today, year_padded, note_files, incomplete_tasks, parsed_config,
                 exit_status, files0, rerunvars, purevars>>

\* An iteration in which a file system call raises: the except clause prints
\* the error and calls sys.exit(1).  The call that raises is the open for
\* reading, the open for writing, the write (the archive copy is then left
\* created and empty) or the rename.
Faults == {"read", "open_archive", "write_archive", "rename"}

ProcessOldFails ==
  /\ pc = "process_old"
  /\ idx <= Len(note_files)
  /\ IsOld(note_files[idx])
  /\ \E fault \in Faults :
       LET note_file == note_files[idx]
           r == process_single_file_before_archiving(files[note_file])
       IN /\ archive' = IF fault = "write_archive" THEN Put(archive, note_file, "")
                        ELSE IF fault = "rename"
                        THEN Put(archive, note_file, r.archive_text)
                        ELSE archive
          /\ calls' = calls \o
               (<<Call("read", "", note_file)>>
                \o (IF fault # "read"
                    THEN <<Call("write", ARCHIVE_HOME, note_file)>> ELSE <<>>)
                \o (IF fault = "rename"
                    THEN <<Call("rename", "", note_file)>> ELSE <<>>))
  /\ errors' = Append(errors, note_files[idx])
  /\ pc' = "exit1"
  /\ exit_status' = 1
  /\ UNCHANGED <<files, backup, dirs, today, year_padded, note_files, idx, incomplete_tasks,
                 parsed_config, files0, rerunvars, purevars>>

\* process_old after the loop: process_incomplete_task_file, and the return.
process_incomplete_task_file ==
  /\ pc = "process_old"
  /\ idx > Len(note_files)
  /\ incomplete_tasks' =
       incomplete_tasks \cup
         (IF INCOMPLETE_TASKS_FILENAME \in DOMAIN files
          THEN IncompleteTaskFileTasks(files[INCOMPLETE_TASKS_FILENAME])
          ELSE {})
  /\ calls' = calls \o
       (<<Call("exists", "", INCOMPLETE_TASKS_FILENAME)>>
        \o (IF INCOMPLETE_TASKS_FILENAME \in DOMAIN files
            THEN <<Call("read", "", INCOMPLETE_TASKS_FILENAME)>> ELSE <<>>))
  /\ pc' = "write_incomplete_tasks"
  /\ UNCHANGED <<fsvars, today, year_padded, note_files, idx, parsed_config, exit_status, errors,
                 files0, rerunvars, purevars>>

write_incomplete_tasks_to_file ==
  /\ pc = "write_incomplete_tasks"
  /\ files' = Put(files, INCOMPLETE_TASKS_FILENAME,
                  incomplete_task_document(incomplete_tasks, today))
  /\ calls' = Append(calls, Call("write", "", INCOMPLETE_TASKS_FILENAME))
  /\ pc' = "create_this_weeks_files"
  /\ UNCHANGED <<archive, backup, dirs, today, year_padded, note_files, idx, incomplete_tasks,
                 parsed_config, exit_status, errors, files0, rerunvars, purevars>>

\* CreateWeek skipping every day whose file exists, not only today.
RECURSIVE CreateWeek_skip_existing(_, _)
CreateWeek_skip_existing(i, st) ==
  IF i \notin WeekRange THEN st
  ELSE LET day == AddDays(today, i)
           file_name == NoteFileName(day)
           exists == Call("exists", "", file_name)
       IN IF file_name \in DOMAIN st.fs
          THEN CreateWeek_skip_existing(i + 1, [st EXCEPT !.calls = Append(@, exists)])
          ELSE CreateWeek_skip_existing(i + 1,
                 [fs |-> Put(st.fs, file_name,
                             create_file_for_day(incomplete_tasks, parsed_config, day)),
                  calls |-> st.calls \o <<exists, Call("write", "", file_name)>>])

\* create_this_weeks_files: the loop over range(7) from iteration i on, as
\* the directory fs and the calls made.
RECURSIVE CreateWeek(_, _)
CreateWeek(i, st) ==
  IF i \notin WeekRange THEN st
  ELSE LET day == AddDays(today, i)
           file_name == NoteFileName(day)
           exists == Call("exists", "", file_name)
       IN IF i = 0 /\ file_name \in DOMAIN st.fs
          THEN CreateWeek(i + 1, [st EXCEPT !.calls = Append(@, exists)])
          ELSE CreateWeek(i + 1,
                 [fs |-> Put(st.fs, file_name,
                             create_file_for_day(incomplete_tasks, parsed_config, day)),
                  calls |-> st.calls \o (IF i = 0 THEN <<exists>> ELSE <<>>)
                              \o <<Call("write", "", file_name)>>])

create_this_weeks_files ==
  /\ pc = "create_this_weeks_files"
  /\ LET r == CreateWeek(0, [fs |-> files, calls |-> calls])
     IN files' = r.fs /\ calls' = r.calls
  /\ pc' = "done"
  /\ UNCHANGED <<archive, backup, dirs, today, year_padded, note_files, idx, incomplete_tasks,
                 parsed_config, exit_status, errors, files0, rerunvars, purevars>>

Next ==
  \/ GetFilesRaises
  \/ GetFiles
  \/ ParseConfig
  \/ directory_check
  \/ ProcessOldSkip
  \/ ProcessOldFile
  \/ ProcessOldFails
  \/ process_incomplete_task_file
  \/ write_incomplete_tasks_to_file
  \/ create_this_weeks_files

Spec == Init /\ [][Next]_vars

(***************************************************************************)
(* main() run a second time over the notes home a first run has left, on   *)
(* the same day, with nothing edited in between.                           *)
(***************************************************************************)
Rerun ==
  /\ pc = "done"
  /\ run = 1
  /\ run' = 2
  /\ pc' = "get_files"
  /\ note_files' = <<>> /\ idx' = 1 /\ incomplete_tasks' = {}
  /\ parsed_config' = EmptyConfig /\ calls' = <<>>
  /\ files0' = files /\ archive0' = archive /\ backup0' = backup
  /\ tasks0' = incomplete_tasks
  /\ UNCHANGED <<fsvars, today, year_padded, exit_status, errors, unreadable, purevars>>

RerunInit == Init /\ today = MkDate(2025, 1, 3) /\ dirs = {}

RerunNext == Next \/ Rerun

SpecRerun == RerunInit /\ [][RerunNext]_vars

(***************************************************************************)
(* Calls of get_days_for_pattern on their own: the pattern is a comma      *)
(* joined list of tokens, the anchor date one of Anchors.                  *)
(***************************************************************************)
MaxTokens == 2
MaxAnchorSpan == 8

PatternTokens == {"", "*", "20250102", "31", "0101", "mon", " Sat ", "xyz"}

AnchorStarts == {MkDate(2024, 12, 24), MkDate(2024, 2, 23)}

\* Anchors at the ends of what a date can hold: a week that runs from the
\* year 999 into the year 1000, the last anchor whose week fits below
\* date.max, and the first whose week does not.
EdgeAnchors == {MkDate(999, 12, 28), MkDate(MAXYEAR, 12, 25), MkDate(MAXYEAR, 12, 26)}

Anchors == {AddDays(d, k) : d \in AnchorStarts, k \in 0..MaxAnchorSpan} \cup EdgeAnchors

TokenLists == UNION {[1..n -> PatternTokens] : n \in 1..MaxTokens}

\* date.fromisoformat raises ValueError unless given a calendar date written
\* YYYY-MM-DD.
FromIsoFormatRaises(iso) ==
  \/ ~IsIsoShape(iso)
  \/ FromIsoFormat(iso).month \notin 1..12
  \/ FromIsoFormat(iso).day \notin 1..DaysInMonth(FromIsoFormat(iso).year,
                                                   FromIsoFormat(iso).month)

\* Whether get_days_for_pattern raises. Two calls in it can: the addition
\* today_date + timedelta(days=i) that builds all_week_as_string, and
\* date.fromisoformat(day), made for every day of the week under a weekday
\* sub pattern.
get_days_for_pattern_raises(pattern, today_date) ==
  LET all_week == all_week_as_string(today_date)
      subs == Split(pattern, ",")
  IN \/ \E i \in WeekRange : AddDaysRaises(today_date, i)
     \/ /\ ~(pattern = "" \/ pattern = "*")
        /\ \E i \in 1..Len(subs) :
             /\ Lower(Strip(subs[i])) \in WeekdayTokens
             /\ \E k \in 1..Len(all_week) : FromIsoFormatRaises(all_week[k])

MainIdle ==
  /\ pc = "idle" /\ today = MkDate(2025, 1, 1) /\ files = NoFiles /\ files0 = NoFiles
  /\ archive = NoFiles /\ backup = NoFiles /\ dirs = {} /\ note_files = <<>>
  /\ idx = 1 /\ incomplete_tasks = {} /\ parsed_config = EmptyConfig
  /\ exit_status = 0 /\ errors = <<>> /\ calls = <<>>
  /\ run = 1 /\ archive0 = NoFiles /\ backup0 = NoFiles /\ tasks0 = {}
  /\ unreadable = {}

ResolveInit ==
  /\ r_tokens \in TokenLists
  /\ r_pattern = Join(r_tokens, ",")
  /\ r_today \in Anchors
  /\ r_days = <<>>
  /\ r_pc = "call"
  /\ year_padded \in BOOLEAN
  /\ MainIdle /\ RenderIdle /\ XEffectIdle

Resolve ==
  /\ r_pc = "call"
  /\ IF get_days_for_pattern_raises(r_pattern, r_today)
     THEN r_pc' = "raised" /\ r_days' = r_days
     ELSE r_pc' = "returned" /\ r_days' = get_days_for_pattern(r_pattern, r_today)
  /\ UNCHANGED <<fsvars, runvars, r_tokens, r_pattern, r_today, rendervars, xvars>>

ResolveNext == Resolve

SpecResolve == ResolveInit /\ [][ResolveNext]_vars

(***************************************************************************)
(* parse_config, create_file_for_day and the later rotation of the file    *)
(* written, on configuration documents made of a few lines.                *)
(***************************************************************************)
MaxConfigLines == 3

\* The lines a configuration document is made of.
ConfigLines ==
  { "# Diary", "  # Tasks", "", "Plain line", "countdown:2025-01-04,Trip in",
    "mon:Put out the: bins", "Walk the dog", "04: Pay rent" }

ConfigDocuments == UNION {[1..n -> ConfigLines] : n \in 1..MaxConfigLines}

\* The days after today a file is written for: a Friday, the Saturday the
\* countdown ends on, and the Monday after it.
RenderOffsets == {0, 1, 3}

\* The text of config.md: every line with its line end.
ConfigText(lines) == Join(lines, "\n") \o "\n"

RenderInit ==
  /\ c_lines \in ConfigDocuments
  /\ c_today = MkDate(2025, 1, 3)
  /\ c_offset \in RenderOffsets
  /\ c_incomplete \in {{}, {"Task 1", "Task 3"}}
  /\ c_config = EmptyConfig /\ c_out = "" /\ c_carried = {}
  /\ c_pc = "parse_config"
  /\ year_padded = FALSE
  /\ MainIdle /\ ResolveIdle /\ XEffectIdle

RenderParse ==
  /\ c_pc = "parse_config"
  /\ c_config' = parse_config(ConfigText(c_lines), c_today)
  /\ c_pc' = "create_file_for_day"
  /\ UNCHANGED <<fsvars, runvars, resolvevars, xvars, c_lines, c_today, c_offset,
                 c_incomplete, c_out, c_carried>>

RenderCreate ==
  /\ c_pc = "create_file_for_day"
  /\ c_out' = create_file_for_day(c_incomplete, c_config, AddDays(c_today, c_offset))
  /\ c_pc' = "process_single_file"
  /\ UNCHANGED <<fsvars, runvars, resolvevars, xvars, c_lines, c_today, c_offset,
                 c_incomplete, c_config, c_carried>>

\* The file written, left as it is, is rotated on a later day.
RenderRotate ==
  /\ c_pc = "process_single_file"
  /\ c_carried' = process_single_file_before_archiving(c_out).incomplete_tasks
  /\ c_pc' = "end"
  /\ UNCHANGED <<fsvars, runvars, resolvevars, xvars, c_lines, c_today, c_offset,
                 c_incomplete, c_config, c_out>>

RenderNext == RenderParse \/ RenderCreate \/ RenderRotate

SpecRender == RenderInit /\ [][RenderNext]_vars

(***************************************************************************)
(* x_effect.py: process_x_effect_file on the lines of one file.            *)
(*                                                                         *)
(* x_lines is what file.readlines() returns, x_out the text of the file,   *)
(* x_pc the position of the call.                                          *)
(***************************************************************************)
MaxXLines == 3

\* The lines the files are made of: the rows of the table of the tests,
\* a row of three columns that crosses the end of a leap February, a row
\* with no blank after its first bar, and a row whose date is no date.
XLines ==
  {"Some header text\n", "| Date       | Task        |\n",
   "| 2024-06-02 | Task 1      |\n", " | 2024-02-27 | a | b |\n",
   "|2024-06-01 | Task 2 |\n", "| 2024-02-30 | Task 3 |\n"}

XFiles == UNION {[1..n -> XLines] : n \in 1..MaxXLines}

\* str.count("|")
RECURSIVE CountBars(_)
CountBars(s) ==
  IF Len(s) = 0 THEN 0
  ELSE (IF Char(s, 1) = "|" THEN 1 ELSE 0) + CountBars(SubSeq(s, 2, Len(s)))

\* count_columns_in_table(line)
count_columns_in_table(line) == CountBars(Strip(line)) - 1

\* re.match(r"^\|\s+(\d{4}-\d{2}-\d{2})", line): group 1, "" when the line
\* does not match.
XRowDate(line) ==
  LET rest == LStrip(SubSeq(line, 2, Len(line)))
  IN IF /\ Len(line) >= 1
        /\ Char(line, 1) = "|"
        /\ Len(rest) < Len(line) - 1
        /\ Len(rest) >= 10
        /\ IsIsoShape(SubSeq(rest, 1, 10))
     THEN SubSeq(rest, 1, 10)
     ELSE ""

\* The index i of enumerate(content) at the break of the loop, counted from
\* 0; -1 when the loop ends without a match.
XMatchIndex(content) ==
  LET rows == {i \in 1..Len(content) : XRowDate(Strip(content[i])) # ""}
  IN IF rows = {} THEN 0 - 1
     ELSE (CHOOSE i \in rows : \A j \in rows : i <= j) - 1

\* first_date after the loop: i - 1 at the break, the initial -1 otherwise.
XFirstDate(content) ==
  IF XMatchIndex(content) = 0 - 1 THEN 0 - 1 ELSE XMatchIndex(content) - 1

\* datetime.strptime(s, "%Y-%m-%d") raises ValueError on a text of the
\* shape \d{4}-\d{2}-\d{2} that is not a date.
StrptimeRaises(s) == FromIsoFormatRaises(s) \/ FromIsoFormat(s).year = 0

\* s * n
RECURSIVE Repeat(_, _)
Repeat(s, n) == IF n <= 0 THEN "" ELSE s \o Repeat(s, n - 1)

\* list(reversed(get_days_for_pattern("*", date_as_date))) after dates.pop()
XDates(date_as_date) ==
  LET days == get_days_for_pattern("*", date_as_date)
      reversed == [k \in 1..Len(days) |-> days[Len(days) + 1 - k]]
  IN SubSeq(reversed, 1, Len(reversed) - 1)

\* new_date_cols
RECURSIVE XNewDateCols(_, _)
XNewDateCols(dates, column_count) ==
  IF Len(dates) = 0 THEN ""
  ELSE "| " \o Head(dates) \o " "
         \o Repeat("|  <input type=\"checkbox\"/> ", column_count - 1) \o "|\n"
         \o XNewDateCols(Tail(dates), column_count)

\* The text process_x_effect_file writes: content with new_date_cols
\* inserted at index first_date + 1.
process_x_effect_file(content) ==
  LET at == XMatchIndex(content) + 1
      date_on_line == XRowDate(Strip(content[at]))
      column_count == count_columns_in_table(Strip(content[at]))
      new_date_cols == XNewDateCols(XDates(FromIsoFormat(date_on_line)), column_count)
  IN Join(SubSeq(content, 1, XFirstDate(content) + 1), "")
       \o new_date_cols
       \o Join(SubSeq(content, XFirstDate(content) + 2, Len(content)), "")

XEffectInit ==
  /\ x_lines \in XFiles
  /\ x_out = Join(x_lines, "")
  /\ x_pc = "process_x_effect_file"
  /\ year_padded = FALSE
  /\ MainIdle /\ ResolveIdle /\ RenderIdle

\* raise ValueError("No table found"): nothing is written.
XNoTableFound ==
  /\ x_pc = "process_x_effect_file"
  /\ XFirstDate(x_lines) = 0 - 1
  /\ x_pc' = "No table found"
  /\ UNCHANGED <<fsvars, runvars, resolvevars, rendervars, x_lines, x_out>>

\* strptime raises on the date of the row found: nothing is written.
XStrptimeRaises ==
  /\ x_pc = "process_x_effect_file"
  /\ XFirstDate(x_lines) # 0 - 1
  /\ StrptimeRaises(XRowDate(Strip(x_lines[XMatchIndex(x_lines) + 1])))
  /\ x_pc' = "ValueError"
  /\ UNCHANGED <<fsvars, runvars, resolvevars, rendervars, x_lines, x_out>>

\* The rows of the next six days are written above the row found.
XProcess ==
  /\ x_pc = "process_x_effect_file"
  /\ XFirstDate(x_lines) # 0 - 1
  /\ ~StrptimeRaises(XRowDate(Strip(x_lines[XMatchIndex(x_lines) + 1])))
  /\ x_out' = process_x_effect_file(x_lines)
  /\ x_pc' = "written"
  /\ UNCHANGED <<fsvars, runvars, resolvevars, rendervars, x_lines>>

XEffectNext == XNoTableFound \/ XStrptimeRaises \/ XProcess

SpecXEffect == XEffectInit /\ [][XEffectNext]_vars

(***************************************************************************)
(* The calendar and the text formats as the claims speak of them, written  *)
(* without the program's conversions.                                      *)
(***************************************************************************)
ClaimMonthLengths == <<31, 28, 31, 30, 31, 30, 31, 31, 30, 31, 30, 31>>

ClaimMonthLength(y, m) ==
  IF m = 2 /\ (y % 400 = 0 \/ (y % 4 = 0 /\ y % 100 # 0)) THEN 29
  ELSE ClaimMonthLengths[m]

\* The calendar day after dt.
ClaimNextDay(dt) ==
  IF dt.day < ClaimMonthLength(dt.year, dt.month)
  THEN [year |-> dt.year, month |-> dt.month, day |-> dt.day + 1]
  ELSE IF dt.month < 12
  THEN [year |-> dt.year, month |-> dt.month + 1, day |-> 1]
  ELSE [year |-> dt.year + 1, month |-> 1, day |-> 1]

\* The 7 consecutive dates d .. d+6.
ClaimWindow(d) ==
  LET w[k \in 1..7] == IF k = 1 THEN d ELSE ClaimNextDay(w[k - 1])
  IN w

ClaimTwoDigits(n) == IF n < 10 THEN "0" \o ToString(n) ELSE ToString(n)

\* YYYY-MM-DD for a year of four digits.
ClaimIso(dt) ==
  ToString(dt.year) \o "-" \o ClaimTwoDigits(dt.month) \o "-" \o ClaimTwoDigits(dt.day)

\* The date a string of numbers joined by "-" stands for.
ClaimDateOf(iso) ==
  LET p == Split(iso, "-")
  IN [year |-> StrToInt(p[1]), month |-> StrToInt(p[2]), day |-> StrToInt(p[3])]

\* The position of a date string in the window of d, 0 when outside it.
ClaimWindowIndex(iso, d) ==
  IF \E k \in 1..7 : ClaimWindow(d)[k] = ClaimDateOf(iso)
  THEN CHOOSE k \in 1..7 : ClaimWindow(d)[k] = ClaimDateOf(iso)
  ELSE 0

\* Whether the whole window d .. d+6 lies within the dates there are.
ClaimWindowFits(d) == ClaimWindow(d)[7].year <= 9999

(***************************************************************************)
(* C7  For every pattern and anchor date, get_days_for_pattern returns,    *)
(* without raising, a list of dates of the window d .. d+6 in strictly     *)
(* ascending calendar order (so sorted and free of duplicates).            *)
(***************************************************************************)
C7_WindowSortedDistinct ==
  /\ r_pc # "raised"
  /\ r_pc = "returned" =>
       /\ \A i \in 1..Len(r_days) : ClaimWindowIndex(r_days[i], r_today) # 0
       /\ \A i, j \in 1..Len(r_days) :
            i < j => ClaimWindowIndex(r_days[i], r_today) < ClaimWindowIndex(r_days[j], r_today)

(***************************************************************************)
(* C8  For a comma joined pattern of two or more tokens, the result is the *)
(* sorted union of the results of get_days_for_pattern on each token.      *)
(***************************************************************************)
C8_JoinedIsUnionOfTokens ==
  (r_pc = "returned" /\ Len(r_tokens) >= 2) =>
     r_days = SortedStrings(UNION {SeqToSet(get_days_for_pattern(r_tokens[i], r_today)) :
                                     i \in 1..Len(r_tokens)})

ClaimLines(text) ==
  LET parts == Split(text, "\n")
      n == Len(parts)
  IN [k \in 1..(IF parts[n] = "" THEN n - 1 ELSE n) |->
        IF k < n THEN parts[k] \o "\n" ELSE parts[k]]

ClaimIsEphemeral(line) == EndsWith(Strip(line), "(delete_if_not_entered)")

\* "- [ ] x" or "* [ ] x" once trimmed, the blanks being any white space.
ClaimIsUnchecked(line) ==
  LET t == Strip(line)
  IN /\ Len(t) > 6
     /\ SubSeq(t, 1, 1) \in {"-", "*"}
     /\ SubSeq(t, 3, 3) = "[" /\ SubSeq(t, 5, 5) = "]"
     /\ \A k \in {2, 4, 6} : IsSpace(SubSeq(t, k, k))

ClaimItem(line) == Strip(SubSeq(Strip(line), 7, Len(Strip(line))))

\* The unfinished items of a daily file: its unchecked lines that are not
\* ephemeral.
ClaimItemsOfNote(text) ==
  {ClaimItem(ClaimLines(text)[k]) :
     k \in {j \in 1..Len(ClaimLines(text)) :
              ClaimIsUnchecked(ClaimLines(text)[j]) /\ ~ClaimIsEphemeral(ClaimLines(text)[j])}}

\* The unchecked items of the carry-forward document.
ClaimItemsOfCarry(text) ==
  {ClaimItem(ClaimLines(text)[k]) :
     k \in {j \in 1..Len(ClaimLines(text)) : ClaimIsUnchecked(ClaimLines(text)[j])}}

\* A text without its ephemeral lines, the other lines kept in order.
RECURSIVE ClaimKeep(_, _)
ClaimKeep(lines, k) ==
  IF k > Len(lines) THEN ""
  ELSE (IF ClaimIsEphemeral(lines[k]) THEN "" ELSE lines[k]) \o ClaimKeep(lines, k + 1)

ClaimWithoutEphemeral(text) == ClaimKeep(ClaimLines(text), 1)

\* A daily file name dated strictly before today, by the numbers of the date.
ClaimDateNumber(y, m, d) == (y * 10000) + (m * 100) + d

ClaimExpired(name) ==
  ClaimDateNumber(StrToInt(SubSeq(name, 1, 4)), StrToInt(SubSeq(name, 6, 7)),
                  StrToInt(SubSeq(name, 9, 10)))
    < ClaimDateNumber(today.year, today.month, today.day)

\* The daily files the run found already expired.
ClaimExpiredFound == {f \in DOMAIN files0 : IsNoteFileName(f) /\ ClaimExpired(f)}

RunEnded == pc \in {"done", "exit1"}

(***************************************************************************)
(* C1  When a run ends, normally or through the exit of process_old, every *)
(* unfinished item of every expired file the run moved to backup/ is a     *)
(* checklist line of the carry-forward document.                           *)
(***************************************************************************)
C1_UnfinishedItemsSurvive ==
  RunEnded =>
    \A f \in DOMAIN backup : \A item \in ClaimItemsOfNote(files0[f]) :
      /\ INCOMPLETE_TASKS_FILENAME \in DOMAIN files
      /\ item \in ClaimItemsOfCarry(files[INCOMPLETE_TASKS_FILENAME])

(***************************************************************************)
(* C2  When processing an expired file f raises, the run ends there with a *)
(* non-zero status: the expired files before f stay rotated, f is still in *)
(* the notes home, no later file is processed, and neither the             *)
(* carry-forward document nor any daily file is written.                   *)
(***************************************************************************)
C2_FailFastNoRollback ==
  errors # <<>> =>
    LET f == errors[1]
        before == {note_files[j] : j \in {i \in 1..(idx - 1) : ClaimExpired(note_files[i])}}
        after == {note_files[j] : j \in (idx + 1)..Len(note_files)}
    IN /\ pc = "exit1" /\ exit_status # 0
       /\ ~ENABLED Next
       /\ Len(errors) = 1 /\ f = note_files[idx]
       /\ \A g \in before :
            /\ g \notin DOMAIN files
            /\ g \in DOMAIN backup /\ backup[g] = files0[g]
            /\ g \in DOMAIN archive
       /\ f \in DOMAIN files /\ f \notin DOMAIN backup
       /\ \A g \in after : g \notin DOMAIN backup /\ g \notin DOMAIN archive
       /\ \A k \in 1..Len(calls) : calls[k].name \notin after
       /\ DOMAIN files = DOMAIN files0 \ before
       /\ \A g \in DOMAIN files : files[g] = files0[g]
       /\ \A k \in 1..Len(calls) : ~(calls[k].op = "write" /\ calls[k].dir = "")

\* The second of two expired files fails at its rename, with a third file
\* of the list not yet looked at.
C2_Witness ==
  /\ pc = "exit1"
  /\ idx = 2 /\ Len(note_files) = 3
  /\ ClaimExpired(note_files[1]) /\ ~ClaimExpired(note_files[3])
  /\ note_files[1] \in DOMAIN backup
  /\ errors = <<note_files[2]>>
  /\ note_files[2] \in DOMAIN archive

(***************************************************************************)
(* C3  For every rotated file: backup/<name> holds the original text,      *)
(* archive/<name> the original lines in order without the ephemeral lines  *)
(* (checked and unchecked lines kept), and the notes home no longer holds  *)
(* the file.                                                               *)
(***************************************************************************)
C3_BackupOriginalArchiveFiltered ==
  \A f \in DOMAIN backup :
    /\ f \notin DOMAIN files
    /\ backup[f] = files0[f]
    /\ f \in DOMAIN archive
    /\ archive[f] = ClaimWithoutEphemeral(files0[f])

\* A rotated file that lost its ephemeral lines and kept its checklist lines.
C3_Witness ==
  /\ pc = "done"
  /\ \E f \in DOMAIN backup :
       /\ Find(backup[f], "(delete_if_not_entered)") # 0
       /\ Find(archive[f], "(delete_if_not_entered)") = 0
       /\ Find(archive[f], "- [X] Done\n") # 0
       /\ Find(archive[f], "  - [ ] Task 4") # 0

(***************************************************************************)
(* C4  The set process_old returns is the union of the unfinished items of *)
(* every expired file (ephemeral lines not counted) and of the unchecked   *)
(* items of the carry-forward document when there is one; checked items    *)
(* are not in it, and a missing document adds nothing.                     *)
(***************************************************************************)
ClaimCarryItems ==
  IF INCOMPLETE_TASKS_FILENAME \in DOMAIN files0
  THEN ClaimItemsOfCarry(files0[INCOMPLETE_TASKS_FILENAME])
  ELSE {}

C4_ReturnedSetIsUnion ==
  pc = "write_incomplete_tasks" =>
    incomplete_tasks =
      UNION {ClaimItemsOfNote(files0[f]) : f \in ClaimExpiredFound} \cup ClaimCarryItems

\* Two expired files and a carry-forward document that share "Task 1": the
\* set holds it once, with the items only one of them has.
C4_Witness ==
  /\ pc = "write_incomplete_tasks"
  /\ Cardinality(ClaimExpiredFound) = 2
  /\ INCOMPLETE_TASKS_FILENAME \in DOMAIN files0
  /\ incomplete_tasks = {"Task 1", "Task 3", "Task 4", "Carried over"}

(***************************************************************************)
(* C5  process_old reads, archives and renames exactly the daily files     *)
(* dated strictly before today, in the order of the list; a file dated     *)
(* today or later is never read, written, archived or renamed by it.       *)
(***************************************************************************)
\* What rotating the expired files of a list calls, in the order of the list.
RECURSIVE ClaimRotationCalls(_)
ClaimRotationCalls(names) ==
  IF Len(names) = 0 THEN <<>>
  ELSE (IF ClaimExpired(Head(names))
        THEN <<[op |-> "read", dir |-> "", name |-> Head(names)],
               [op |-> "write", dir |-> "archive", name |-> Head(names)],
               [op |-> "rename", dir |-> "", name |-> Head(names)]>>
        ELSE <<>>)
       \o ClaimRotationCalls(Tail(names))

\* The calls made so far on the daily files of the list.
CallsOnNoteFiles ==
  LET onNote(c) == c.name \in SeqToSet(note_files)
  IN SelectSeq(calls, onNote)

C5_OnlyExpiredInListOrder ==
  pc \in {"process_old", "write_incomplete_tasks", "exit1"} =>
    /\ \A k \in 1..Len(CallsOnNoteFiles) : ClaimExpired(CallsOnNoteFiles[k].name)
    /\ \A j \in 1..Len(note_files) :
         ~ClaimExpired(note_files[j]) =>
            /\ note_files[j] \in DOMAIN files /\ files[note_files[j]] = files0[note_files[j]]
            /\ note_files[j] \notin DOMAIN archive \cup DOMAIN backup
    /\ pc = "process_old" =>
         CallsOnNoteFiles = ClaimRotationCalls(SubSeq(note_files, 1, idx - 1))
    /\ pc = "write_incomplete_tasks" =>
         /\ CallsOnNoteFiles = ClaimRotationCalls(note_files)
         /\ DOMAIN backup = {note_files[j] : j \in {i \in 1..Len(note_files) :
                                                       ClaimExpired(note_files[i])}}

\* The file of today comes first in the list and is passed over; the two
\* expired files follow, the younger before the older, and are rotated in
\* that order.
C5_Witness ==
  /\ pc = "write_incomplete_tasks"
  /\ Len(note_files) = 3
  /\ note_files[1] = ClaimIso(today) \o ".md"
  /\ ClaimExpired(note_files[2]) /\ ClaimExpired(note_files[3])
  /\ StrLess(note_files[3], note_files[2])
  /\ Len(CallsOnNoteFiles) = 6
  /\ CallsOnNoteFiles[1].name = note_files[2]
  /\ CallsOnNoteFiles[6] = [op |-> "rename", dir |-> "", name |-> note_files[3]]

(***************************************************************************)
(* C6  create_this_weeks_files handles the 7 dates today .. today+6 and    *)
(* nothing else: a file of today that exists is not opened for writing     *)
(* and keeps its text, the files of today+1 .. today+6 are written anew    *)
(* over whatever they held, and a missing file of today is written, so     *)
(* that all 7 files exist afterwards.                                      *)
(***************************************************************************)
ClaimWeekName(k) == ClaimIso(ClaimWindow(today)[k]) \o ".md"

ClaimWrites(name) ==
  Cardinality({k \in 1..Len(calls) :
                 calls[k] = [op |-> "write", dir |-> "", name |-> name]})

C6_WeekFilesWritten ==
  pc = "done" =>
    /\ \A k \in 1..7 : ClaimWeekName(k) \in DOMAIN files
    /\ ClaimWeekName(1) \in DOMAIN files0 =>
         /\ ClaimWrites(ClaimWeekName(1)) = 0
         /\ files[ClaimWeekName(1)] = files0[ClaimWeekName(1)]
    /\ ClaimWeekName(1) \notin DOMAIN files0 => ClaimWrites(ClaimWeekName(1)) = 1
    /\ \A k \in 2..7 :
         /\ ClaimWrites(ClaimWeekName(k)) = 1
         /\ files[ClaimWeekName(k)] # EditedText
         /\ files[ClaimWeekName(k)] =
              create_file_for_day(incomplete_tasks, parsed_config, ClaimWindow(today)[k])
    /\ \A g \in DOMAIN files \ ({ClaimWeekName(k) : k \in 1..7} \cup {INCOMPLETE_TASKS_FILENAME}) :
         g \in DOMAIN files0 /\ files[g] = files0[g] /\ ClaimWrites(g) = 0

\* The files of today and of tomorrow both existed, edited by hand: the
\* first keeps its text, the second is overwritten.
C6_Witness ==
  /\ pc = "done"
  /\ ClaimWeekName(1) \in DOMAIN files0 /\ ClaimWeekName(2) \in DOMAIN files0
  /\ files0[ClaimWeekName(2)] = EditedText
  /\ files[ClaimWeekName(1)] = EditedText
  /\ files[ClaimWeekName(2)] # EditedText

(***************************************************************************)
(* C10  write_incomplete_tasks_to_file replaces the carry-forward document *)
(* by a header line with the date of today as day/month/year without zero  *)
(* padding, a blank line, and one "- [ ] <task>" line per element of the   *)
(* set in ascending lexicographic order; for the empty set the single line *)
(* "No incomplete tasks found." stands in place of the checklist lines.    *)
(***************************************************************************)
\* a sorts before b: at the first position where they differ a ends, or has
\* the smaller code point.
ClaimLexLess(a, b) ==
  \E k \in 1..Len(b) :
    /\ k <= Len(a) + 1
    /\ SubSeq(a, 1, k - 1) = SubSeq(b, 1, k - 1)
    /\ k = Len(a) + 1 \/ CodePoints[SubSeq(a, k, k)] < CodePoints[SubSeq(b, k, k)]

C10_CarryForwardDocument ==
  pc \in {"create_this_weeks_files", "done"} =>
    LET doc == Split(files[INCOMPLETE_TASKS_FILENAME], "\n")
        n == Cardinality(incomplete_tasks)
    IN /\ doc[1] = "Incomplete task list updated on " \o ToString(today.day) \o "/"
                     \o ToString(today.month) \o "/" \o ToString(today.year) \o ":"
       /\ doc[2] = ""
       /\ doc[Len(doc)] = ""
       /\ IF n = 0
          THEN Len(doc) = 4 /\ doc[3] = "No incomplete tasks found."
          ELSE /\ Len(doc) = n + 3
               /\ \A k \in 3..(n + 2) :
                    /\ SubSeq(doc[k], 1, 6) = "- [ ] "
                    /\ SubSeq(doc[k], 7, Len(doc[k])) \in incomplete_tasks
               /\ \A k \in 3..(n + 1) :
                    ClaimLexLess(SubSeq(doc[k], 7, Len(doc[k])),
                                 SubSeq(doc[k + 1], 7, Len(doc[k + 1])))

\* Four tasks, written on 3 January 2025 in the order of their code points.
C10_Witness ==
  /\ pc = "create_this_weeks_files"
  /\ today = [year |-> 2025, month |-> 1, day |-> 3]
  /\ files[INCOMPLETE_TASKS_FILENAME] =
       "Incomplete task list updated on 3/1/2025:\n\n- [ ] Carried over\n- [ ] Task 1\n- [ ] Task 3\n- [ ] Task 4\n"

(***************************************************************************)
(* Configuration documents and rendered files as the claims speak of them. *)
(***************************************************************************)
\* The date the file is written for, and its name in the task lists.
ClaimFileDate == ClaimWindow(c_today)[c_offset + 1]

\* The lines of the file written; the last entry is what follows the last
\* line end.
ClaimOutLines == Split(c_out, "\n")

ClaimRendered == c_pc \in {"process_single_file", "end"}

ClaimStarts(line, prefix) ==
  Len(line) >= Len(prefix) /\ SubSeq(line, 1, Len(prefix)) = prefix

\* A header line whose name holds "tasks" in any case.
ClaimIsTasksHeader(line) ==
  /\ ClaimStarts(line, "#")
  /\ \E k \in 1..(Len(line) - 4) : Lower(SubSeq(line, k, k + 4)) = "tasks"

\* The checklist lines of the scheduled tasks whose dates hold t, in the
\* order of the configuration; the sentinel line when there is none.
ClaimTaskLines(tasks, t) ==
  LET matches(x) == \E k \in 1..Len(x[1]) : x[1][k] = t
      matching == SelectSeq(tasks, matches)
  IN IF Len(matching) = 0 THEN <<"- [ ] No tasks for today">>
     ELSE [k \in 1..Len(matching) |-> "- [ ] " \o matching[k][2]]

(***************************************************************************)
(* C11  Under every tasks header of the file written for date t stand,     *)
(* after the line that counts the incomplete tasks, one "- [ ] <text>"     *)
(* line per scheduled task whose dates hold t, in the order of the         *)
(* configuration with duplicates kept, and no other checklist line; when   *)
(* no task matches, the one line "- [ ] No tasks for today" stands there.  *)
(***************************************************************************)
C11_TaskLinesInConfigOrder ==
  ClaimRendered =>
    LET expected == ClaimTaskLines(c_config.task_list_for_day, ClaimIso(ClaimFileDate))
        n == Len(expected)
    IN \A i \in 1..Len(ClaimOutLines) :
         ClaimIsTasksHeader(ClaimOutLines[i]) =>
           /\ i + n + 2 <= Len(ClaimOutLines)
           /\ SubSeq(ClaimOutLines, i + 2, i + n + 1) = expected
           /\ ~ClaimStarts(ClaimOutLines[i + n + 2], "- [ ]")

\* The same task scheduled twice is written twice.
C11_Witness ==
  /\ ClaimRendered
  /\ c_lines = <<"  # Tasks", "Walk the dog", "Walk the dog">>
  /\ c_incomplete = {}
  /\ c_out = "# Tasks\nAt the last calculation there were 0 [[incomplete tasks]].\n- [ ] Walk the dog\n- [ ] Walk the dog\n"

(***************************************************************************)
(* C12  Every line of the tasks section that is neither blank nor a header *)
(* gives one scheduled task, in source order: the line is cut at its first *)
(* ':' only, what stands before it is the pattern, all that follows it     *)
(* (further ':' included) the task text; a line without ':' is a task      *)
(* whose text is the whole line and whose dates are the whole window.      *)
(***************************************************************************)
ClaimParsed == c_pc \in {"create_file_for_day", "process_single_file", "end"}

ClaimIsHeader(line) == ClaimStarts(Strip(line), "#")

\* Whether line k of the document lies under a tasks header.
ClaimInTasks(lines, k) ==
  LET headers == {h \in 1..(k - 1) : ClaimIsHeader(lines[h])}
  IN /\ headers # {}
     /\ ClaimIsTasksHeader(Strip(lines[CHOOSE h \in headers : \A g \in headers : g <= h]))

\* The lines of the document that are tasks.
ClaimTaskLineSet(lines) ==
  {k \in 1..Len(lines) :
     Strip(lines[k]) # "" /\ ~ClaimIsHeader(lines[k]) /\ ClaimInTasks(lines, k)}

\* The j-th smallest member of a set of numbers.
ClaimNth(S, j) == CHOOSE k \in S : Cardinality({i \in S : i < k}) = j - 1

\* The place of the first ':' of a line, 0 when it has none.
ClaimFirstColon(line) ==
  IF \E k \in 1..Len(line) : SubSeq(line, k, k) = ":"
  THEN CHOOSE k \in 1..Len(line) :
         SubSeq(line, k, k) = ":" /\ \A j \in 1..(k - 1) : SubSeq(line, j, j) # ":"
  ELSE 0

ClaimIsoWindow(d) == [k \in 1..7 |-> ClaimIso(ClaimWindow(d)[k])]

C12_TaskPerLineFirstColon ==
  ClaimParsed =>
    LET S == ClaimTaskLineSet(c_lines)
        tasks == c_config.task_list_for_day
    IN /\ Len(tasks) = Cardinality(S)
       /\ \A j \in 1..Len(tasks) :
            LET line == Strip(c_lines[ClaimNth(S, j)])
                at == ClaimFirstColon(line)
            IN IF at = 0
               THEN tasks[j] = <<ClaimIsoWindow(c_today), line>>
               ELSE /\ tasks[j][2] = Strip(SubSeq(line, at + 1, Len(line)))
                    /\ tasks[j][1] =
                         get_days_for_pattern(Strip(SubSeq(line, 1, at - 1)), c_today)

\* A task text that holds a ':' of its own, and a line without any.
C12_Witness ==
  /\ ClaimParsed
  /\ c_lines = <<"  # Tasks", "mon:Put out the: bins", "Walk the dog">>
  /\ c_config.task_list_for_day[1] = <<(<<"2025-01-06">>), "Put out the: bins">>
  /\ c_config.task_list_for_day[2][2] = "Walk the dog"
  /\ Len(c_config.task_list_for_day[2][1]) = 7

(***************************************************************************)
(* C13  The number of sections parse_config returns is the number of       *)
(* header lines plus one: the section that comes first has an empty header *)
(* string and is there even when nothing stands before the first header.   *)
(***************************************************************************)
ClaimHeaderSet(lines) == {k \in 1..Len(lines) : ClaimIsHeader(lines[k])}

ClaimStartsWithHeader(lines) ==
  \E h \in ClaimHeaderSet(lines) : \A k \in 1..(h - 1) : Strip(lines[k]) = ""

\* The non-blank lines between the j-th header and the next, trimmed.
ClaimBody(lines, j) ==
  LET H == ClaimHeaderSet(lines)
      from == ClaimNth(H, j)
      upto == IF j < Cardinality(H) THEN ClaimNth(H, j + 1) ELSE Len(lines) + 1
      B == {k \in (from + 1)..(upto - 1) : Strip(lines[k]) # ""}
  IN [i \in 1..Cardinality(B) |-> Strip(lines[ClaimNth(B, i)])]

RECURSIVE ClaimJoinLines(_)
ClaimJoinLines(q) ==
  IF Len(q) = 0 THEN ""
  ELSE IF Len(q) = 1 THEN q[1]
  ELSE q[1] \o "\n" \o ClaimJoinLines(Tail(q))

\* The section of the j-th header: its name, and its literal lines unless
\* it is a tasks section.
ClaimSectionOf(lines, j) ==
  LET name == Strip(lines[ClaimNth(ClaimHeaderSet(lines), j)])
  IN <<name, IF ClaimIsTasksHeader(name) THEN "" ELSE ClaimJoinLines(ClaimBody(lines, j))>>

ClaimConfigUsable ==
  CONFIG_FILENAME \in DOMAIN files0 /\ CONFIG_FILENAME \notin unreadable

C15_NoConfigNoChange ==
  (~ClaimConfigUsable /\ pc # "get_files") =>
    /\ pc = "raised" /\ exit_status # 0
    /\ ~ENABLED Next
    /\ calls = <<>>
    /\ files = files0
    /\ archive = NoFiles /\ backup = NoFiles

\* config.md is there but may not be read, an expired daily file waits to
\* be rotated, and archive/ and backup/ do not exist: nothing is touched.
C15_Witness ==
  /\ pc = "raised"
  /\ unreadable = {CONFIG_FILENAME}
  /\ ClaimExpiredFound # {}
  /\ dirs = {}
  /\ INCOMPLETE_TASKS_FILENAME \notin DOMAIN files

(***************************************************************************)
(* C16  A section that is not a tasks section and has k >= 1 literal lines *)
(* (none with the countdown prefix or the day-of-week placeholder) is      *)
(* written as its header line, then its k lines unchanged, each a line of  *)
(* its own and in source order, then one blank line.                       *)
(***************************************************************************)
\* The lines of the file written that are headers.
ClaimOutHeaders == {i \in 1..Len(ClaimOutLines) : ClaimStarts(ClaimOutLines[i], "#")}

ClaimIsLiteral(line) ==
  /\ ~ClaimStarts(line, "countdown:")
  /\ \A k \in 1..(Len(line) - 4) : SubSeq(line, k, k + 4) # "%dow%"

C16_LiteralLinesOwnLine ==
  ClaimRendered =>
    \A j \in 1..Cardinality(ClaimHeaderSet(c_lines)) :
      LET section == ClaimSectionOf(c_lines, j)
          body == ClaimBody(c_lines, j)
          k == Len(body)
          at == ClaimNth(ClaimOutHeaders, j)
      IN (/\ ~ClaimIsTasksHeader(section[1])
          /\ k >= 1
          /\ \A i \in 1..k : ClaimIsLiteral(body[i]))
         => /\ Cardinality(ClaimOutHeaders) = Cardinality(ClaimHeaderSet(c_lines))
            /\ ClaimOutLines[at] = section[1]
            /\ at + k + 1 <= Len(ClaimOutLines)
            /\ SubSeq(ClaimOutLines, at + 1, at + k) = body
            /\ ClaimOutLines[at + k + 1] = ""

(***************************************************************************)
(* C17  A content line "countdown:<ISO date>,<label>" of a section that is *)
(* not a tasks section is written to the file for date t as                *)
(* "<label> N day" when N = 1 and as "<label> N days" for every other N,   *)
(* zero and negative N included, N being the number of days from t to the  *)
(* ISO date, negative when the ISO date lies before t.                     *)
(***************************************************************************)
ClaimBefore(a, b) ==
  ClaimDateNumber(a.year, a.month, a.day) < ClaimDateNumber(b.year, b.month, b.day)

\* The number of days from a to b, counted one day at a time.
RECURSIVE ClaimDaysFrom(_, _)
ClaimDaysFrom(a, b) ==
  IF a = b THEN 0
  ELSE IF ClaimBefore(a, b) THEN 1 + ClaimDaysFrom(ClaimNextDay(a), b)
  ELSE 0 - ClaimDaysFrom(b, a)

ClaimIsCountdown(line) ==
  /\ Len(line) >= 21
  /\ SubSeq(line, 1, 10) = "countdown:"
  /\ SubSeq(line, 21, 21) = ","

ClaimCountdownLabel(line) == SubSeq(line, 22, Len(line))

ClaimCountdownN(line) == ClaimDaysFrom(ClaimFileDate, ClaimDateOf(SubSeq(line, 11, 20)))

ClaimSigned(n) == IF n < 0 THEN "-" \o ToString(0 - n) ELSE ToString(n)

ClaimCountdownText(line) ==
  ClaimCountdownLabel(line) \o " " \o ClaimSigned(ClaimCountdownN(line)) \o " "
    \o (IF ClaimCountdownN(line) = 1 THEN "day" ELSE "days")

\* How many times sub occurs in text.
ClaimCount(text, sub) ==
  Cardinality({i \in 1..(Len(text) - Len(sub) + 1) :
                 SubSeq(text, i, i + Len(sub) - 1) = sub})

\* The countdown lines of the document outside its tasks sections.
ClaimCountdownLines ==
  {k \in 1..Len(c_lines) : ClaimIsCountdown(c_lines[k]) /\ ~ClaimInTasks(c_lines, k)}

C17_CountdownDayOrDays ==
  ClaimRendered =>
    \A k \in ClaimCountdownLines :
      LET same == {j \in ClaimCountdownLines : c_lines[j] = c_lines[k]}
      IN /\ ClaimCount(c_out, ClaimCountdownText(c_lines[k]) \o "\n") = Cardinality(same)
         /\ ClaimCount(c_out, ClaimCountdownLabel(c_lines[k]) \o " ") = Cardinality(same)

\* A file written with a countdown of one day: the singular form.
C17_Witness ==
  /\ c_pc = "end"
  /\ ClaimCountdownLines # {}
  /\ \E k \in ClaimCountdownLines : ClaimCountdownN(c_lines[k]) = 1
  /\ ClaimCount(c_out, "Trip in 1 day\n") >= 1

(***************************************************************************)
(* C19  A daily file written for a date that no scheduled task matches,    *)
(* and rotated as it was written, gives no incomplete task: the line       *)
(* "No tasks for today" is not carried forward as an unfinished task.      *)
(***************************************************************************)
ClaimNoTaskMatches ==
  \A k \in 1..Len(c_config.task_list_for_day) :
    \A i \in 1..Len(c_config.task_list_for_day[k][1]) :
      c_config.task_list_for_day[k][1][i] # ClaimIso(ClaimFileDate)

C19_PlaceholderNotCarried ==
  (c_pc = "end" /\ ClaimNoTaskMatches) => c_carried = {}

(***************************************************************************)
(* C18  process_x_effect_file, on a file whose first date row (the first   *)
(* line starting "| YYYY-MM-DD") carries the date d, writes six new rows   *)
(* right above that row, for d+6 down to d+1, each with one checkbox cell  *)
(* per column of the table but the first, and leaves every line there was  *)
(* unchanged and in place; on a file with no date row it raises "No table  *)
(* found" and writes nothing.                                              *)
(***************************************************************************)
\* Whether a text of ten characters is a date of the calendar.
ClaimIsDate(t) ==
  /\ IsIsoShape(t)
  /\ ClaimDateOf(t).year >= 1
  /\ ClaimDateOf(t).month \in 1..12
  /\ ClaimDateOf(t).day \in 1..ClaimMonthLength(ClaimDateOf(t).year, ClaimDateOf(t).month)

\* A date row: "|", blanks, a date, seen with the blanks around the line
\* taken off.
ClaimRowText(line) == Strip(line)

ClaimIsDateRow(line) ==
  LET row == ClaimRowText(line)
      cell == LStrip(SubSeq(row, 2, Len(row)))
  IN /\ ClaimStarts(row, "| ")
     /\ Len(cell) >= 10
     /\ ClaimIsDate(SubSeq(cell, 1, 10))

ClaimRowDate(line) ==
  ClaimDateOf(SubSeq(LStrip(SubSeq(ClaimRowText(line), 2, Len(ClaimRowText(line)))), 1, 10))

\* The columns of the table: the bars of the row less one.
ClaimColumns(line) == ClaimCount(ClaimRowText(line), "|") - 1

\* The texts of a list one after the other.
ClaimFlat(q) == Join(q, "")

ClaimCheckboxRow(dt, columns) ==
  "| " \o ClaimIso(dt) \o " "
    \o ClaimFlat([k \in 1..(columns - 1) |-> "|  <input type=\"checkbox\"/> "])
    \o "|\n"

ClaimDateRows == {i \in 1..Len(x_lines) : ClaimIsDateRow(x_lines[i])}

C18_SixRowsAboveFirstDateRow ==
  x_pc # "process_x_effect_file" =>
    IF ClaimDateRows = {}
    THEN x_pc = "No table found" /\ x_out = ClaimFlat(x_lines)
    ELSE LET at == ClaimNth(ClaimDateRows, 1)
             w == ClaimWindow(ClaimRowDate(x_lines[at]))
             columns == ClaimColumns(x_lines[at])
         IN /\ x_pc = "written"
            /\ x_out = ClaimFlat(SubSeq(x_lines, 1, at - 1))
                         \o ClaimFlat([k \in 1..6 |-> ClaimCheckboxRow(w[8 - k], columns)])
                         \o ClaimFlat(SubSeq(x_lines, at, Len(x_lines)))

(***************************************************************************)
(* C20  A second run of main for the same today, after a first run that    *)
(* ended normally, with config.md as it was and nothing edited in between, *)
(* leaves every file as it found it: the carry-forward document read back  *)
(* gives the very set the first run wrote and is written again alike, the  *)
(* seven daily files keep their text, archive/ and backup/ do not change.  *)
(***************************************************************************)
ClaimSecondRunRead ==
  run = 2 /\ pc \in {"write_incomplete_tasks", "create_this_weeks_files", "done"}

C20_SecondRunChangesNothing ==
  /\ run = 2 => /\ files = files0
                /\ archive = archive0
                /\ backup = backup0
                /\ dirs = {ARCHIVE_HOME, BACKUP_HOME}
                /\ exit_status = 0
  /\ ClaimSecondRunRead => incomplete_tasks = tasks0

\* The second run has ended, after a first run that rotated notes and
\* carried tasks forward.
C20_Witness ==
  /\ run = 2
  /\ pc = "done"
  /\ tasks0 # {}
  /\ backup0 # NoFiles
  /\ \A k \in 1..7 : ClaimWeekName(k) \in DOMAIN files

=============================================================================
